---- MODULE Spec2Model ----
(***************************************************************************)
(* Moon Tracker: the lunar calculation engine (services/moonPhase/         *)
(* moonPhaseLogic) as a state machine.                                     *)
(*                                                                         *)
(* Representation                                                          *)
(*   - A Date is an integer: minutes since 1970-01-01T00:00Z (the code's   *)
(*     Date holds milliseconds; every instant used here is a whole minute).*)
(*   - The host time zone is UTC, so the local getters and setters         *)
(*     (getFullYear, getMonth, getDate, setDate, new Date(y, m, d)) and    *)
(*     the UTC ones (toISOString, new Date('YYYY-MM-DD')) agree.           *)
(*   - A real number of days is an integer count of Tau, 1/28800 day       *)
(*     (3 seconds, 1/20 minute).  29.53058867 days is 850480.95 Tau, kept  *)
(*     as 850481: the cycle is not a whole number of minutes.              *)
(*   - Other reals are exact rationals [n |-> numerator, d |-> denominator]*)
(*     with d > 0, compared by cross multiplication.                       *)
(*   - The engine exists in two builds kept in the same source file: the   *)
(*     formula build (lines 1-346) and the SunCalc build (lines 348-684).  *)
(*     SunCalc is a library outside the repository: its outputs are drawn  *)
(*     nondeterministically from the ranges its call sites document.       *)
(*   - hourCycle is the hour cycle the runtime's Intl data give en-US      *)
(*     with hour12: false; it is fixed when the process starts and is read *)
(*     by the SunCalc build only.                                          *)
(*   - ui is the visualization page in the browser: the store, the state   *)
(*     of the MoonCanvas component, the moon-phase query and the rotation  *)
(*     requests in flight.  The browser's clock and time zone are the      *)
(*     server's.                                                           *)
(***************************************************************************)
EXTENDS Integers, Sequences, FiniteSets, TLC

VARIABLES now, boot, build, hourCycle, res, ui

vars == <<now, boot, build, hourCycle, res, ui>>

(***************************************************************************)
(* Bounds of the model                                                     *)
(***************************************************************************)
\* clock advances explored after start-up
MaxTicks == 2
\* calendar days explored on each side of a window edge and of today
MaxEdge == 2
\* instants sampled on each side of the reference new moon
MaxSteps == 12
\* library phase values explored on each side of a phase-name boundary (per mille)
LibMargin == 1
\* longest short range explored, in days
MaxSpan == 3

\* rotation requests sent by a page
MaxRequests == 2
\* dates picked on a page
MaxPicks == 1

(***************************************************************************)
(* Time units                                                              *)
(***************************************************************************)
MinutesPerDay == 24 * 60
TauPerMinute == 4 * 5
TauPerDay == MinutesPerDay * TauPerMinute

(***************************************************************************)
(* ECMAScript Date arithmetic (proleptic Gregorian calendar, UTC)          *)
(***************************************************************************)
\* Day(t) and TimeWithinDay(t)
DayOf(t) == t \div MinutesPerDay
TimeWithinDay(t) == t % MinutesPerDay

\* MakeDay(year, month, 1): day number of the first day of month m (0..11) of year y
DayFromYearMonth(y, m) ==
    LET yy  == IF m <= 1 THEN y - 1 ELSE y
        era == yy \div 400
        yoe == yy - era * 400
        mp  == IF m >= 2 THEN m - 2 ELSE m + 10
        doy == (153 * mp + 2) \div 5
        doe == yoe * 365 + yoe \div 4 - yoe \div 100 + doy
    IN  era * 146097 + doe - 719468

\* MakeDay(year, month, date): a date outside the month carries into the
\* neighbouring months, as in new Date(y, m, d) and setDate(d)
MakeDay(y, m, d) == DayFromYearMonth(y, m) + d - 1

\* YearFromTime, MonthFromTime (0..11) and DateFromTime of a day number
Civil(z) ==
    LET zz  == z + 719468
        era == zz \div 146097
        doe == zz - era * 146097
        yoe == (doe - doe \div 1460 + doe \div 36524 - doe \div 146096) \div 365
        doy == doe - (365 * yoe + yoe \div 4 - yoe \div 100)
        mp  == (5 * doy + 2) \div 153
        dd  == doy - (153 * mp + 2) \div 5 + 1
        mm  == IF mp < 10 THEN mp + 2 ELSE mp - 10
    IN  [y |-> yoe + era * 400 + (IF mm <= 1 THEN 1 ELSE 0), m |-> mm, d |-> dd]

getFullYear(t) == Civil(DayOf(t)).y
getMonth(t) == Civil(DayOf(t)).m
getDate(t) == Civil(DayOf(t)).d

\* new Date(year, month, date): midnight of that calendar day
NewDate(y, m, d) == MakeDay(y, m, d) * MinutesPerDay

\* date.setDate(v): the same month and time of day, day of month v
setDate(t, v) == MakeDay(getFullYear(t), getMonth(t), v) * MinutesPerDay + TimeWithinDay(t)

\* date.toISOString().split('T')[0]: the calendar date, [y, m (1..12), d]
isoDate(t) == [y |-> getFullYear(t), m |-> getMonth(t) + 1, d |-> getDate(t)]

(***************************************************************************)
(* Real arithmetic                                                         *)
(***************************************************************************)
\* JavaScript's a % b for b > 0: the remainder has the sign of the dividend
jsRem(a, b) == IF a >= 0 THEN a % b ELSE 0 - ((0 - a) % b)

Rat(n, d) == [n |-> n, d |-> d]
RatLt(a, b) == a.n * b.d < b.n * a.d
RatEq(a, b) == a.n * b.d = b.n * a.d
RatLe(a, b) == a.n * b.d <= b.n * a.d
\* a constant written in thousandths (0.033 is PerMille(33))
PerMille(k) == Rat(k, 1000)

(***************************************************************************)
(* calculateMoonPhase                                                      *)
(***************************************************************************)
\* new Date('2000-01-06T18:14:00Z')
knownNewMoon == NewDate(2000, 0, 6) + 18 * 60 + 14

\* 29.53058867 days, in Tau
lunarCycle == 850481

\* daysSinceNewMoon, in Tau
daysSinceNewMoon(date) == (date - knownNewMoon) * TauPerMinute

\* a single remainder, which keeps the sign of the elapsed time
formulaPhaseSingleRemainder(date) ==
    Rat(jsRem(daysSinceNewMoon(date), lunarCycle), lunarCycle)

\* the remainders taken over the sidereal month, 27.321661 days
formulaPhaseSidereal(date) ==
    Rat(jsRem(jsRem(daysSinceNewMoon(date), 786864) + 786864, 786864), 786864)

\* phase of the formula build:
\* (((daysSinceNewMoon % lunarCycle) + lunarCycle) % lunarCycle) / lunarCycle
formulaPhase(date) ==
    Rat(jsRem(jsRem(daysSinceNewMoon(date), lunarCycle) + lunarCycle, lunarCycle), lunarCycle)

\* the rising branch alone
formulaIlluminationRising(phase) == Rat(phase.n * 2, phase.d)

\* illumination of the formula build
formulaIllumination(phase) ==
    IF RatLt(phase, Rat(1, 2))
    THEN Rat(phase.n * 2, phase.d)
    ELSE Rat((phase.d - phase.n) * 2, phase.d)

\* the chain with the upper New Moon boundary included
phaseNameOfInclusive(phase) ==
    IF RatLt(phase, PerMille(33)) \/ RatLe(PerMille(967), phase) THEN "New Moon"
    ELSE IF RatLt(phase, PerMille(216)) THEN "Waxing Crescent"
    ELSE IF RatLt(phase, PerMille(283)) THEN "First Quarter"
    ELSE IF RatLt(phase, PerMille(466)) THEN "Waxing Gibbous"
    ELSE IF RatLt(phase, PerMille(533)) THEN "Full Moon"
    ELSE IF RatLt(phase, PerMille(716)) THEN "Waning Gibbous"
    ELSE IF RatLt(phase, PerMille(783)) THEN "Last Quarter"
    ELSE "Waning Crescent"

\* the if / else-if chain that names the phase (identical in both builds)
phaseNameOf(phase) ==
    IF RatLt(phase, PerMille(33)) \/ RatLt(PerMille(967), phase) THEN "New Moon"
    ELSE IF RatLt(phase, PerMille(216)) THEN "Waxing Crescent"
    ELSE IF RatLt(phase, PerMille(283)) THEN "First Quarter"
    ELSE IF RatLt(phase, PerMille(466)) THEN "Waxing Gibbous"
    ELSE IF RatLt(phase, PerMille(533)) THEN "Full Moon"
    ELSE IF RatLt(phase, PerMille(716)) THEN "Waning Gibbous"
    ELSE IF RatLt(phase, PerMille(783)) THEN "Last Quarter"
    ELSE "Waning Crescent"

\* a single remainder as the age
formulaAgeSingleRemainder(date) == Rat(jsRem(daysSinceNewMoon(date), lunarCycle), 1)

\* age of the formula build: the double remainder again, a number of Tau
formulaAge(date) ==
    Rat(jsRem(jsRem(daysSinceNewMoon(date), lunarCycle) + lunarCycle, lunarCycle), 1)

\* age of the SunCalc build: phase * lunarCycle, a number of Tau
sunCalcAge(phase) == Rat(phase.n * lunarCycle, phase.d)

\* calculateMoonPhase(date); lib is what SunCalc.getMoonIllumination(date)
\* returned ([phase, fraction]), read by the SunCalc build only.
\* distance (a cosine of the anomalistic age) is not represented.
calculateMoonPhase(date, lib) ==
    IF build = "formula"
    THEN LET phase == formulaPhase(date)
         IN  [phase        |-> phase,
              illumination |-> formulaIllumination(phase),
              phaseName    |-> phaseNameOf(phase),
              age          |-> formulaAge(date)]
    ELSE LET phase == lib.phase
         IN  [phase        |-> phase,
              illumination |-> lib.fraction,
              phaseName    |-> phaseNameOf(phase),
              age          |-> sunCalcAge(phase)]

(***************************************************************************)
(* Math.floor, Math.ceil, Math.round on rationals with positive denominator*)
(***************************************************************************)
jsFloor(r) == r.n \div r.d
jsCeil(r) == 0 - ((0 - r.n) \div r.d)
\* Math.round: the nearest integer, a tie going up
jsRound(r) == (2 * r.n + r.d) \div (2 * r.d)

RECURSIVE Gcd(_, _)
Gcd(a, b) == IF b = 0 THEN a ELSE Gcd(b, a % b)
Lcm(a, b) == (a \div Gcd(a, b)) * b
RatSub(a, b) ==
    LET l == Lcm(a.d, b.d)
    IN  Rat(a.n * (l \div a.d) - b.n * (l \div b.d), l)

(***************************************************************************)
(* calculateMoonTimes                                                      *)
(***************************************************************************)
\* a time of day 'HH:MM'; the placeholder '--:--' is Unavailable
HHMM(h, m) == [hh |-> h, mm |-> m]
Unavailable == [hh |-> 0 - 1, mm |-> 0 - 1]

\* formatTime(h) of the formula build, h a rational number of hours in [0, 24):
\* hours = floor(h), minutes = floor((h - hours) * 60)
formatTime(h) ==
    LET hours == jsFloor(h)
    IN  HHMM(hours, jsFloor(Rat((h.n - hours * h.d) * 60, h.d)))

\* the set hour left as riseHour + 12
formulaMoonTimesUnwrapped(phase) ==
    LET riseHour == Rat(jsRem(6 * phase.d + 24 * phase.n, 24 * phase.d), phase.d)
    IN  [rise |-> formatTime(riseHour),
         set  |-> formatTime(Rat(riseHour.n + 12 * phase.d, phase.d))]

\* formula build: riseHour = (6 + phase * 24) % 24, setHour = (riseHour' + 12) % 24
\* where riseHour' is the rise hour before it is wrapped
formulaMoonTimes(phase) ==
    LET riseHour == Rat(6 * phase.d + 24 * phase.n, phase.d)
        setHour  == Rat(riseHour.n + 12 * phase.d, phase.d)
    IN  [rise |-> formatTime(Rat(jsRem(riseHour.n, 24 * phase.d), phase.d)),
         set  |-> formatTime(Rat(jsRem(setHour.n, 24 * phase.d), phase.d))]

\* toLocaleTimeString('en-US', {hour: '2-digit', minute: '2-digit', hour12: false})
\* of a time of day in minutes.  The runtime resolves hour12: false for en-US
\* to the hour cycle h23 or, in runtimes whose locale data pair it with the
\* pattern 'k', to h24: the hour after midnight is then written 24.
toLocaleTimeString(min) ==
    HHMM(IF hourCycle = "h24" /\ min \div 60 = 0 THEN 24 ELSE min \div 60, min % 60)

\* SunCalc build: formatTime(d) of a library time: absent or NaN gives the
\* placeholder, a valid one its time of day as the runtime writes it
libFormatTime(t) == IF t.kind = "valid" THEN toLocaleTimeString(t.min) ELSE Unavailable

\* SunCalc build: location is TRUE when a coordinate was supplied; times is
\* what SunCalc.getMoonTimes returned
sunCalcMoonTimes(location, times) ==
    IF ~location
    THEN [rise |-> Unavailable, set |-> Unavailable]
    ELSE [rise |-> libFormatTime(times.rise), set |-> libFormatTime(times.set)]

(***************************************************************************)
(* getNextPhaseInfo                                                        *)
(***************************************************************************)
\* majorPhases: ages lunarCycle * 0.25, 0.5, 0.75 and lunarCycle, in Tau
majorPhases ==
    << [name |-> "First Quarter", age |-> Rat(lunarCycle, 4)],
       [name |-> "Full Moon",     age |-> Rat(lunarCycle * 2, 4)],
       [name |-> "Last Quarter",  age |-> Rat(lunarCycle * 3, 4)],
       [name |-> "New Moon",      age |-> Rat(lunarCycle * 4, 4)] >>

\* p.age >= currentAge
agesAfterInclusive(currentAge) ==
    {i \in 1..Len(majorPhases) : RatSub(majorPhases[i].age, currentAge).n >= 0}

\* p.age > currentAge
agesAfter(currentAge) ==
    {i \in 1..Len(majorPhases) : RatSub(majorPhases[i].age, currentAge).n > 0}

\* majorPhases.find((p) => p.age > currentAge), or majorPhases[0] when none
findNextPhase(currentAge) ==
    LET after == agesAfter(currentAge)
    IN  IF after = {}
        THEN majorPhases[1]
        ELSE majorPhases[CHOOSE i \in after : \A j \in after : i <= j]

\* daysToNext, in days: nextPhase.age - currentAge, plus lunarCycle if negative
daysToNext(nextPhase, currentAge) ==
    LET diff == RatSub(nextPhase.age, currentAge)
        tau  == IF diff.n < 0 THEN Rat(diff.n + lunarCycle * diff.d, diff.d) ELSE diff
    IN  Rat(tau.n, tau.d * TauPerDay)

\* the forecast date moved by Math.floor(daysToNext) days
nextPhaseInfoFloorDays(nextPhase, next, currentDate) ==
    [date     |-> isoDate(setDate(currentDate, getDate(currentDate) + jsFloor(next))),
     name     |-> nextPhase.name,
     duration |-> [days  |-> jsFloor(next),
                   hours |-> jsRound(Rat(jsRem(next.n, next.d) * 24, next.d))]]

\* the hours of the duration cut down with Math.floor
nextPhaseInfoFloorHours(nextPhase, next, currentDate) ==
    [date     |-> isoDate(setDate(currentDate, getDate(currentDate) + jsCeil(next))),
     name     |-> nextPhase.name,
     duration |-> [days  |-> jsFloor(next),
                   hours |-> jsFloor(Rat(jsRem(next.n, next.d) * 24, next.d))]]

\* what getNextPhaseInfo returns; duration is
\* `${floor(daysToNext)} days ${round((daysToNext % 1) * 24)} hours`
nextPhaseInfo(nextPhase, next, currentDate) ==
    [date     |-> isoDate(setDate(currentDate, getDate(currentDate) + jsCeil(next))),
     name     |-> nextPhase.name,
     duration |-> [days  |-> jsFloor(next),
                   hours |-> jsRound(Rat(jsRem(next.n, next.d) * 24, next.d))]]

\* A Date is an object: a function that moves a Date it was given moves the
\* caller's Date, unless the Date it moves is one it made itself.
\* const copy = date: a second name for the object it was given
aliasDate(date) == [time |-> date, own |-> FALSE]

\* new Date(date): an object of its own, holding the same instant
copyDate(date) == [time |-> date, own |-> TRUE]

\* the instant the caller's Date holds after the call, when the function
\* worked on `local` and left it at the instant `last`
argumentAfter(date, local, last) == IF local.own THEN date ELSE last

\* nextDate.setDate(nextDate.getDate() + Math.ceil(daysToNext))
nextDate(currentAge, currentDate) ==
    setDate(currentDate,
            getDate(currentDate) + jsCeil(daysToNext(findNextPhase(currentAge), currentAge)))

\* currentDate as getNextPhaseInfo leaves it: nextDate = new Date(currentDate)
\* is the Date that is moved
currentDateAfter(currentAge, currentDate) ==
    argumentAfter(currentDate, copyDate(currentDate), nextDate(currentAge, currentDate))

\* the forecast counted from today instead of from currentDate
getNextPhaseInfoFromToday(currentAge, currentDate) ==
    CHOOSE info \in
        {nextPhaseInfo(nextPhase, next, now) :
            <<nextPhase, next>> \in
                {<<p, daysToNext(p, currentAge)>> : p \in {findNextPhase(currentAge)}}} : TRUE

\* getNextPhaseInfo(currentAge, currentDate)
getNextPhaseInfo(currentAge, currentDate) ==
    CHOOSE info \in
        {nextPhaseInfo(nextPhase, next, currentDate) :
            <<nextPhase, next>> \in
                {<<p, daysToNext(p, currentAge)>> : p \in {findNextPhase(currentAge)}}} : TRUE

(***************************************************************************)
(* getMoonPhaseData                                                        *)
(***************************************************************************)
\* the clock as it was when the module was loaded
currentTimeAtBoot == boot

\* const now = new Date(): the clock, read when the call is made
currentTime == now

fiftyYearsAgo(clock) == NewDate(getFullYear(clock) - 50, getMonth(clock), getDate(clock))
fiftyYearsAhead(clock) == NewDate(getFullYear(clock) + 50, getMonth(clock), getDate(clock))

\* date < fiftyYearsAgo || date > fiftyYearsAhead
outOfRange(date) == date < fiftyYearsAgo(currentTime) \/ date > fiftyYearsAhead(currentTime)

\* Math.round(x * 10000) / 100 for 0 <= x <= 1, as a number of hundredths:
\* the product is formed in two steps of 100 to stay within the integers
roundPercent(x) ==
    LET h == x.n * 100
    IN  (h \div x.d) * 100 + jsRound(Rat((h % x.d) * 100, x.d))

NoData == [date |-> [y |-> 0, m |-> 0, d |-> 0]]

\* the record getMoonPhaseData returns, from the calculation, the times and the
\* next phase it obtained.  age is Math.round(age * 10) / 10 with age in days
\* (a Tau count over TauPerDay); distance is not represented.
moonPhaseRecord(date, calculation, moonTimes, nextPhase) ==
    [date          |-> isoDate(date),
     phaseName     |-> calculation.phaseName,
     illumination  |-> Rat(roundPercent(calculation.illumination), 100),
     age           |-> Rat(jsRound(Rat(calculation.age.n,
                                       calculation.age.d * (TauPerDay \div 10))), 10),
     phaseValue    |-> Rat(jsRound(Rat(calculation.phase.n * 1000, calculation.phase.d)), 1000),
     moonRise      |-> moonTimes.rise,
     moonSet       |-> moonTimes.set,
     nextPhaseDate |-> nextPhase.date,
     nextPhaseName |-> nextPhase.name,
     phaseDuration |-> nextPhase.duration,
     connectionStatus |-> IF build = "formula" THEN "fallback" ELSE "online"]

\* calculateMoonTimes of the build in use
calculateMoonTimes(phase, location, times) ==
    IF build = "formula" THEN formulaMoonTimes(phase) ELSE sunCalcMoonTimes(location, times)

\* getMoonPhaseData(date, location); lib and times are what the SunCalc
\* library returned to this call (read by the SunCalc build only).
\* Each const of the code is bound once, by ranging over a singleton.
getMoonPhaseData(date, location, lib, times) ==
    IF outOfRange(date)
    THEN [err |-> "dateOutOfRange", data |-> NoData]
    ELSE CHOOSE out \in
            {[err |-> "none", data |-> moonPhaseRecord(date, calculation, moonTimes, nextPhase)] :
                <<calculation, moonTimes, nextPhase>> \in
                    {<<c, calculateMoonTimes(c.phase, location, times),
                       getNextPhaseInfo(c.age, date)>> :
                        c \in {calculateMoonPhase(date, lib)}}} : TRUE

\* date as getMoonPhaseData leaves it: calculateMoonPhase and
\* calculateMoonTimes only read it, getNextPhaseInfo receives it
dateAfter(date, lib) ==
    IF outOfRange(date) THEN date
    ELSE currentDateAfter(calculateMoonPhase(date, lib).age, date)

(***************************************************************************)
(* getMoonPhaseRange                                                       *)
(***************************************************************************)
NoTimes == [rise |-> [kind |-> "undefined", min |-> 0], set |-> [kind |-> "undefined", min |-> 0]]

\* a pass of the loop with the end date excluded
loopPassExclusive(st, endDate, lib) ==
    IF ~(st.cur < endDate)
    THEN [st EXCEPT !.done = TRUE]
    ELSE CHOOSE nxt \in
            {IF r.err # "none"
             THEN [st EXCEPT !.err = r.err, !.done = TRUE]
             ELSE [st EXCEPT !.cur = setDate(st.cur, getDate(st.cur) + 1),
                             !.result = Append(st.result, r.data)] :
                r \in {getMoonPhaseData(st.cur, FALSE, lib, NoTimes)}} : TRUE

\* The while loop: while (currentDate <= endDate) one
\* getMoonPhaseData(new Date(currentDate)) is pushed, then
\* currentDate.setDate(currentDate.getDate() + 1); a throw ends the call.
\* A loop state is [cur, result, err, done]; loopPasses runs at most n passes
\* from it, and rangeLoop runs blocks of passes until the loop has ended (the
\* blocks only keep the evaluation shallow).
loopPass(st, endDate, lib) ==
    IF ~(st.cur <= endDate)
    THEN [st EXCEPT !.done = TRUE]
    ELSE CHOOSE nxt \in
            {IF r.err # "none"
             THEN [st EXCEPT !.err = r.err, !.done = TRUE]
             ELSE [st EXCEPT !.cur = setDate(st.cur, getDate(st.cur) + 1),
                             !.result = Append(st.result, r.data)] :
                r \in {getMoonPhaseData(st.cur, FALSE, lib, NoTimes)}} : TRUE

RECURSIVE loopPasses(_, _, _, _)
loopPasses(st, endDate, lib, n) ==
    IF n = 0 \/ st.done THEN st
    ELSE CHOOSE r \in {loopPasses(nxt, endDate, lib, n - 1) :
                          nxt \in {loopPass(st, endDate, lib)}} : TRUE

RECURSIVE rangeLoop(_, _, _)
rangeLoop(st, endDate, lib) ==
    IF st.done THEN st
    ELSE CHOOSE r \in {rangeLoop(nxt, endDate, lib) :
                          nxt \in {loopPasses(st, endDate, lib, 16)}} : TRUE

\* the cap with the 365th day excluded
rangeTooLargeInclusive(startDate, endDate) == endDate - startDate >= 365 * MinutesPerDay

\* daysDiff > 365, daysDiff = (endDate - startDate) / (1000 * 60 * 60 * 24)
rangeTooLarge(startDate, endDate) == endDate - startDate > 365 * MinutesPerDay

\* getMoonPhaseRange(startDate, endDate); computed counts the records that had
\* been built when the call ended
getMoonPhaseRange(startDate, endDate, lib) ==
    IF startDate > endDate
    THEN [err |-> "invalidDateRange", data |-> <<>>, computed |-> 0]
    ELSE IF rangeTooLarge(startDate, endDate)
    THEN [err |-> "dateRangeTooLarge", data |-> <<>>, computed |-> 0]
    ELSE LET st == rangeLoop([cur |-> startDate, result |-> <<>>, err |-> "none",
                              done |-> FALSE], endDate, lib)
         IN  [err      |-> st.err,
              data     |-> IF st.err = "none" THEN st.result ELSE <<>>,
              computed |-> Len(st.result)]

\* startDate as getMoonPhaseRange leaves it: currentDate = new Date(startDate)
\* is the Date the loop moves, one day for each record built, and each
\* getMoonPhaseData receives a new Date(currentDate); endDate is only read
startDateAfter(startDate, out) ==
    argumentAfter(startDate, copyDate(startDate),
                  setDate(startDate, getDate(startDate) + out.computed))

(***************************************************************************)
(* calculateDateFromRotation                                               *)
(***************************************************************************)
degreesPerUnit == 30
\* one day per unit whatever the speed
daysPerUnitSlowOnly(speed) == 1

daysPerUnit(speed) == IF speed = "slow" THEN 1 ELSE 7

\* dayOffset = (angleDegrees / degreesPerUnit) * daysPerUnit
dayOffset(angleDegrees, speed) == Rat(angleDegrees * daysPerUnit(speed), degreesPerUnit)

\* resultDate.setDate(resultDate.getDate() + Math.round(dayOffset)); no validation
calculateDateFromRotation(baseDate, angleDegrees, speed) ==
    [err  |-> "none",
     date |-> setDate(baseDate, getDate(baseDate) + jsRound(dayOffset(angleDegrees, speed)))]

\* baseDate as calculateDateFromRotation leaves it: resultDate = new Date(baseDate)
\* is the Date that is moved
baseDateAfter(baseDate, out) == argumentAfter(baseDate, copyDate(baseDate), out.date)

(***************************************************************************)
(* generateDateArc                                                         *)
(***************************************************************************)
\* the list with one more interval let through
validIntervalsWithTwo == {1, 2, 3, 7, 30}

validIntervals == {1, 3, 7, 30}

\* a label one day per step, whatever the interval
arcLabelUnitStep(centerDate, i, intervalDays) ==
    LET date == setDate(centerDate, getDate(centerDate) + i)
    IN  [day |-> getDate(date), month |-> getMonth(date) + 1]

\* `${day}/${month}` of centerDate moved by i * intervalDays days
arcLabel(centerDate, i, intervalDays) ==
    LET date == setDate(centerDate, getDate(centerDate) + i * intervalDays)
    IN  [day |-> getDate(date), month |-> getMonth(date) + 1]

generateDateArc(centerDate, intervalDays, totalDates) ==
    IF intervalDays \notin validIntervals
    THEN [err |-> "invalidInterval", dates |-> <<>>]
    ELSE LET halfDates == totalDates \div 2
         IN  [err   |-> "none",
              dates |-> [k \in 1..(2 * halfDates + 1) |->
                            arcLabel(centerDate, k - 1 - halfDates, intervalDays)]]

\* centerDate as the for loop leaves it from pass i on: each pass moves
\* date = new Date(centerDate) by i * intervalDays days
RECURSIVE centerDateAfter(_, _, _, _)
centerDateAfter(centerDate, i, halfDates, intervalDays) ==
    IF i > halfDates THEN centerDate
    ELSE centerDateAfter(argumentAfter(centerDate, copyDate(centerDate),
                                       setDate(centerDate, getDate(centerDate) + i * intervalDays)),
                         i + 1, halfDates, intervalDays)

(***************************************************************************)
(* The request handlers (api/v1/internal/moon-phase/controller)            *)
(*                                                                         *)
(* A date string of a request is [kind, time]: kind "date" for YYYY-MM-DD  *)
(* of a calendar day (time is its midnight), "malformed" for a string the  *)
(* pattern rejects, "invalid" for one the pattern accepts and Date does    *)
(* not ('2026-13-01'), "absent" for a parameter left out.  What a handler  *)
(* did is [status, message, type, next]: the response it sent (status 0    *)
(* when it sent none) and the error it handed to next().                   *)
(***************************************************************************)
\* res.json(successResponse(data))
success == [status |-> 200, message |-> "none", type |-> "success", next |-> "none"]

\* res.status(400).json(errorResponse(message, 'VALIDATION_ERROR'))
validationError(message) ==
    [status |-> 400, message |-> message, type |-> "VALIDATION_ERROR", next |-> "none"]

\* next(error)
passToNext(error) == [status |-> 0, message |-> "none", type |-> "none", next |-> error]

\* a catch block that knows dateOutOfRange only
catchDateOutOfRangeOnly(error) ==
    IF error = "dateOutOfRange" THEN validationError("dateOutOfRange")
    ELSE passToNext(error)

\* the catch block of getHandler
getCatch(error) ==
    IF error = "dateOutOfRange" THEN validationError("dateOutOfRange")
    ELSE passToNext(error)

\* the catch block of getRangeHandler
getRangeCatch(error) ==
    IF error = "invalidDateRange" THEN validationError("invalidDateRange")
    ELSE IF error = "dateRangeTooLarge" THEN validationError("dateRangeTooLarge")
    ELSE IF error = "dateOutOfRange" THEN validationError("dateOutOfRange")
    ELSE passToNext(error)

\* the catch block of postRotationHandler
postRotationCatch(error) ==
    IF error = "dateOutOfRange" THEN validationError("dateOutOfRange")
    ELSE passToNext(error)

\* the catch block of postDateArcHandler
postDateArcCatch(error) ==
    IF error = "invalidInterval" THEN validationError("invalidInterval")
    ELSE IF error = "dateOutOfRange" THEN validationError("dateOutOfRange")
    ELSE passToNext(error)

\* z.string().regex(/^\d{4}-\d{2}-\d{2}$/)
matchesDatePattern(string) == string.kind \in {"date", "invalid"}

\* isNaN(new Date(string).getTime())
isNaNDate(string) == string.kind = "invalid"

\* getHandler: [thrown, did, data]; thrown is what the try block threw
\* ("none" when it threw nothing), did is what the handler did about it
getHandler(query, lib) ==
    IF query.date.kind # "absent" /\ ~matchesDatePattern(query.date)
    THEN [thrown |-> "ZodError", did |-> getCatch("ZodError"), data |-> NoData]
    ELSE IF query.date.kind # "absent" /\ isNaNDate(query.date)
    THEN [thrown |-> "none", did |-> validationError("invalidDate"), data |-> NoData]
    ELSE CHOOSE h \in
            {[thrown |-> out.err,
              did    |-> IF out.err = "none" THEN success ELSE getCatch(out.err),
              data   |-> out.data] :
                out \in {getMoonPhaseData(IF query.date.kind = "absent" THEN currentTime
                                          ELSE query.date.time, FALSE, lib, NoTimes)}} : TRUE

\* getRangeHandler
getRangeHandler(query, lib) ==
    IF ~matchesDatePattern(query.startDate) \/ ~matchesDatePattern(query.endDate)
    THEN [thrown |-> "ZodError", did |-> getRangeCatch("ZodError"), data |-> <<>>]
    ELSE IF isNaNDate(query.startDate) \/ isNaNDate(query.endDate)
    THEN [thrown |-> "none", did |-> validationError("invalidDate"), data |-> <<>>]
    ELSE CHOOSE h \in
            {[thrown |-> out.err,
              did    |-> IF out.err = "none" THEN success ELSE getRangeCatch(out.err),
              data   |-> out.data] :
                out \in {getMoonPhaseRange(query.startDate.time, query.endDate.time, lib)}} : TRUE

\* z.number().min(0).max(360)
angleInSchema(angleDegrees) == angleDegrees >= 0 /\ angleDegrees <= 360

\* postRotationHandler; date is calculatedDate, moonPhase its record
postRotationHandler(body, lib) ==
    IF ~matchesDatePattern(body.baseDate) \/ ~angleInSchema(body.angleDegrees)
         \/ body.speed \notin {"slow", "fast"}
    THEN [thrown |-> "ZodError", did |-> postRotationCatch("ZodError"),
          date |-> 0, moonPhase |-> NoData]
    ELSE IF isNaNDate(body.baseDate)
    THEN [thrown |-> "none", did |-> validationError("invalidDate"),
          date |-> 0, moonPhase |-> NoData]
    ELSE CHOOSE h \in
            {[thrown    |-> out.err,
              did       |-> IF out.err = "none" THEN success ELSE postRotationCatch(out.err),
              date      |-> calculatedDate,
              moonPhase |-> out.data] :
                <<calculatedDate, out>> \in
                    {<<d, getMoonPhaseData(d, FALSE, lib, NoTimes)>> :
                        d \in {calculateDateFromRotation(body.baseDate.time, body.angleDegrees,
                                                         body.speed).date}}} : TRUE

\* intervalDays: z.number().int().refine((val) => [1, 3, 7, 30].includes(val));
\* totalDates: z.number().int().min(1).max(50)
arcInSchema(body) ==
    /\ body.intervalDays \in {1, 3, 7, 30}
    /\ body.totalDates >= 1 /\ body.totalDates <= 50

\* postDateArcHandler
postDateArcHandler(body) ==
    IF ~matchesDatePattern(body.centerDate) \/ ~arcInSchema(body)
    THEN [thrown |-> "ZodError", did |-> postDateArcCatch("ZodError"), dates |-> <<>>]
    ELSE IF isNaNDate(body.centerDate)
    THEN [thrown |-> "none", did |-> validationError("invalidDate"), dates |-> <<>>]
    ELSE CHOOSE h \in
            {[thrown |-> out.err,
              did    |-> IF out.err = "none" THEN success ELSE postDateArcCatch(out.err),
              dates  |-> out.dates] :
                out \in {generateDateArc(body.centerDate.time, body.intervalDays,
                                         body.totalDates)}} : TRUE

(***************************************************************************)
(* Inputs explored                                                         *)
(***************************************************************************)
\* start-up instants: a leap day in mid-morning, and a midnight
BootTimes == {NewDate(2024, 1, 29) + 10 * 60 + 30, NewDate(2026, 10, 3)}

\* the clock moves half a day at a time
TickMinutes == MinutesPerDay \div 2

\* calendar days around today and around both edges of the window
EdgeDays ==
    {DayOf(base) + k : base \in {now, fiftyYearsAgo(now), fiftyYearsAhead(now)},
                       k \in (0 - MaxEdge)..MaxEdge}

\* new Date('YYYY-MM-DD'): midnight of a calendar day, as the handlers pass it
CalendarDates == {day * MinutesPerDay : day \in EdgeDays}

\* instants around the reference new moon, an eighth of a cycle apart, and the
\* minutes next to it
PhaseInstants ==
    {knownNewMoon + k * ((lunarCycle \div TauPerMinute) \div 8) : k \in (0 - MaxSteps)..MaxSteps}
        \cup {knownNewMoon - 1, knownNewMoon + 1}

\* dates handed to calculateMoonPhase; the SunCalc build only passes the date
\* on to the library, whose answer is drawn apart
PhaseDates ==
    IF build = "formula" THEN PhaseInstants \cup CalendarDates ELSE {knownNewMoon, now}

\* dates handed to getMoonPhaseData: the calendar dates, the present instant
\* and, for the phase the formula build computes, the minute before the
\* reference new moon and an instant 1390 minutes after it
DataDates ==
    CalendarDates \cup {now}
        \cup (IF build = "formula" THEN {knownNewMoon - 1, knownNewMoon + 1390} ELSE {})

\* the thresholds of the phase-name chain, per mille
nameThresholds == {33, 216, 283, 466, 533, 716, 783, 967}

\* SunCalc.getMoonIllumination: phase in [0, 1), fraction in [0, 1]
LibPhases ==
    {PerMille(k) : k \in {0, 300, 500, 999} \cup
                         {b + e : b \in nameThresholds, e \in (0 - LibMargin)..LibMargin}}
LibFractions == {PerMille(0), PerMille(500), PerMille(1000)}
LibOutputs == {[phase |-> p, fraction |-> f] : p \in LibPhases, f \in LibFractions}
NoLib == [phase |-> PerMille(0), fraction |-> PerMille(0)]

\* what the library may have returned to one call
LibDraws == IF build = "formula" THEN {NoLib} ELSE LibOutputs
\* the same, for a getMoonPhaseData call: the phases away from the name boundaries
LibDataDraws ==
    IF build = "formula" THEN {NoLib}
    ELSE {l \in LibOutputs : l.phase.n \in {0, 300, 500, 999}}
\* the same, for a range call: every day of the call is given the same draw
LibRangeDraws ==
    IF build = "formula" THEN {NoLib}
    ELSE {l \in LibOutputs : l.phase.n \in {0, 500} /\ l.fraction.n = 500}

\* SunCalc.getMoonTimes: each of rise and set absent, invalid or a time of day
LibTimeValues ==
    {[kind |-> "undefined", min |-> 0], [kind |-> "NaN", min |-> 0],
     [kind |-> "valid", min |-> 18 * 60 + 5], [kind |-> "valid", min |-> 5]}
LibTimes == {[rise |-> r, set |-> t] : r \in LibTimeValues, t \in LibTimeValues}
\* the library is asked for times only by the SunCalc build given a coordinate
TimesDraws(location) == IF build = "suncalc" /\ location THEN LibTimes ELSE {NoTimes}
\* the same, for a getMoonPhaseData call: the moon sets in the evening
DataTimesDraws(location) ==
    {t \in TimesDraws(location) : t = NoTimes \/ t.set = [kind |-> "valid", min |-> 18 * 60 + 5]}

\* calculateMoonTimes is given a phase in the formula build (thousandths of the
\* cycle and the phases of the sampled instants) and a location in the
\* SunCalc build
MoonTimesPhases ==
    {PerMille(k) : k \in {0, 1, 249, 250, 251, 500, 749, 750, 751, 999}}
        \cup {formulaPhase(date) : date \in PhaseInstants}
MoonTimesInputs ==
    IF build = "formula"
    THEN {[phase |-> p, location |-> FALSE, times |-> NoTimes] : p \in MoonTimesPhases}
    ELSE {in \in [phase : {PerMille(0)}, location : BOOLEAN, times : LibTimes] :
              in.location \/ in.times = NoTimes}

\* ranges: short ones from every calendar date, and from today the spans at
\* the 365-day cap and just over it
RangeInputs ==
    {[start |-> s, end |-> s + n * MinutesPerDay] :
        s \in CalendarDates, n \in (0 - 1)..MaxSpan}
    \cup
    {[start |-> DayOf(now) * MinutesPerDay, end |-> (DayOf(now) + n) * MinutesPerDay] :
        n \in {365, 366}}

\* ages handed to getNextPhaseInfo, in [0, lunarCycle): Tau counts next to each
\* major phase and up to a day before it in the formula build, thousandths of
\* the cycle in the SunCalc build
NextPhaseAges ==
    IF build = "formula"
    THEN {Rat(n, 1) : n \in
              ({0} \cup {(q * lunarCycle) \div 4 + e :
                            q \in 1..4, e \in {0 - TauPerDay + 1, 0 - TauPerDay + 300,
                                               0 - TauPerDay \div 2, 0 - 1, 0, 1}})
              \cap (0..(lunarCycle - 1))}
    ELSE {sunCalcAge(PerMille(k)) : k \in {0, 249, 250, 251, 499, 500, 501, 749, 750, 751, 999}}

Angles == {15 * k : k \in (0 - 3)..24} \cup {1, 14, 16, 44, 46, 359}
Speeds == {"slow", "fast"}
Intervals == {0, 1, 2, 3, 7, 30, 31}
TotalDates == {1, 2, 3, 12}

\* date strings of requests
DateString(t) == [kind |-> "date", time |-> t]
Malformed == [kind |-> "malformed", time |-> 0]
InvalidDate == [kind |-> "invalid", time |-> 0]
Absent == [kind |-> "absent", time |-> 0]
DateStrings == {DateString(t) : t \in CalendarDates} \cup {Malformed, InvalidDate}

\* queries of GET /moon-phase/range: short ranges, reversed ones, one over the
\* cap, and strings that are no dates
RangeQueries ==
    {[startDate |-> DateString(s), endDate |-> DateString(s + n * MinutesPerDay)] :
        s \in CalendarDates, n \in ((0 - 1)..MaxSpan) \cup {366}}
    \cup
    {[startDate |-> s, endDate |-> e] :
        s \in {DateString(DayOf(now) * MinutesPerDay), Malformed, InvalidDate},
        e \in {Malformed, InvalidDate}}

\* bodies of POST /moon-phase/rotation; an angle outside 0..360 and a speed
\* outside the enum are among them
HandlerAngles == {0 - 15, 0, 15, 30, 45, 360, 375}
RotationBodies ==
    [baseDate : DateStrings, angleDegrees : HandlerAngles, speed : {"slow", "fast", "medium"}]

\* bodies of POST /moon-phase/date-arc
DateArcBodies ==
    [centerDate : {DateString(DayOf(now) * MinutesPerDay), Malformed, InvalidDate},
     intervalDays : Intervals, totalDates : {0, 1, 2, 12, 50, 51}]

(***************************************************************************)
(* The visualization page (pages/MoonVisualization): the store, MoonCanvas,*)
(* the date picker, the lunar calendar and the moon-phase query.           *)
(*                                                                         *)
(* An open page u is a record: selectedDate, rotationSpeed, rotationAngle  *)
(* and isRotating are the store; mounted tells whether MoonCanvas is       *)
(* rendered, and isDragging, startX, dragAccumulator are its state;        *)
(* isLoading and cached (the days whose record the query cache    *)
(* holds) and error (the error of the last answer, "none" without one)     *)
(* are the moon-phase query; inflight holds the rotation requests sent and *)
(* not answered.  issued numbers the rotation requests, setBy lists the    *)
(* requests whose answers set selectedDate, picked tells whether the user  *)
(* picked the selected date, and picks counts the dates picked.  Pointer   *)
(* positions are multiples of 10 px, so that angles are whole degrees.     *)
(***************************************************************************)
\* formatDateForAPI(date), format(date, 'yyyy-MM-dd'): the calendar date
formatDateForAPI(date) == DateString(DayOf(date) * MinutesPerDay)

\* isDateInRange(date): date >= fiftyYearsAgo && date <= fiftyYearsAhead
isDateInRange(date) ==
    date >= fiftyYearsAgo(currentTime) /\ date <= fiftyYearsAhead(currentTime)

\* new Date(today.getFullYear() - 50, 0, 1) and
\* new Date(today.getFullYear() + 50, 11, 31): the limits of the date picker
\* and of the lunar calendar
minDate == NewDate(getFullYear(currentTime) - 50, 0, 1)
maxDate == NewDate(getFullYear(currentTime) + 50, 11, 31)

\* the store's setSelectedDate(date), and the render that follows: the page
\* asks for the record of the new date, and while it is loading a spinner
\* takes the place of MoonCanvas, whose state is lost
setSelectedDate(u, date, byUser) ==
    IF DayOf(date) \in u.cached
    THEN [u EXCEPT !.selectedDate = date, !.picked = byUser, !.error = "none"]
    ELSE [u EXCEPT !.selectedDate = date, !.picked = byUser, !.error = "none",
                   !.isLoading = TRUE, !.mounted = FALSE,
                   !.isDragging = FALSE, !.startX = 0, !.dragAccumulator = 0]

\* ((newAngle % 360) + 360) % 360
normalizedAngle(newAngle) == jsRem(jsRem(newAngle, 360) + 360, 360)

\* handleRotationUpdate(newAngle) up to its await: the angle is stored and the
\* request is sent
handleRotationUpdate(u, newAngle) ==
    [u EXCEPT !.rotationAngle = normalizedAngle(newAngle),
              !.issued = @ + 1,
              !.inflight = @ \cup
                  {[id   |-> u.issued + 1,
                    body |-> [baseDate     |-> formatDateForAPI(u.selectedDate),
                              angleDegrees |-> normalizedAngle(newAngle),
                              speed        |-> u.rotationSpeed]]}]

\* handleRotationUpdate after its await: h is what postRotationHandler did
\* with the request; any answer but a success is thrown by the client and
\* caught
rotationAnswered(u, request, h) ==
    LET v == [u EXCEPT !.inflight = @ \ {request}]
    IN  IF h.did.status # 200 THEN v
        ELSE IF ~isDateInRange(h.date) THEN v
        ELSE [setSelectedDate(v, h.date, FALSE) EXCEPT !.setBy = Append(@, request.id)]

\* handleStart(clientX)
handleStart(u, clientX) ==
    [u EXCEPT !.isDragging = TRUE, !.startX = clientX, !.isRotating = TRUE,
              !.dragAccumulator = 0]

\* Math.abs(dragAccumulatorRef.current) >= threshold,
\* threshold = 100 / (rotationSpeed === 'slow' ? 1 : 7)
thresholdReached(accumulator, rotationSpeed) ==
    (IF accumulator < 0 THEN 0 - accumulator ELSE accumulator)
        * (IF rotationSpeed = "slow" THEN 1 ELSE 7) >= 100

\* angleDelta = dragAccumulatorRef.current * degreesPerPixel, 30 / 100 degree
\* per pixel: a whole number of degrees for the distances of PointerXs
angleDelta(accumulator) == (accumulator * 30) \div 100

\* handleMove(clientX)
handleMove(u, clientX) ==
    IF ~u.isDragging THEN u
    ELSE CHOOSE v \in
            {IF thresholdReached(acc, u.rotationSpeed)
             THEN [handleRotationUpdate(u, u.rotationAngle + angleDelta(acc))
                      EXCEPT !.dragAccumulator = 0, !.startX = clientX]
             ELSE [u EXCEPT !.dragAccumulator = acc, !.startX = clientX] :
                acc \in {u.dragAccumulator + (clientX - u.startX)}} : TRUE

\* handleEnd()
handleEnd(u) ==
    [u EXCEPT !.isDragging = FALSE, !.isRotating = FALSE, !.dragAccumulator = 0]

\* the store's resetToToday()
resetToToday(u) ==
    [setSelectedDate(u, currentTime, FALSE) EXCEPT !.rotationAngle = 0]

\* the page as it opens: the store's initial state, and the first query loading
openPage ==
    [open |-> TRUE,
     selectedDate |-> currentTime, rotationSpeed |-> "slow", rotationAngle |-> 0,
     isRotating |-> FALSE,
     mounted |-> FALSE, isDragging |-> FALSE, startX |-> 0, dragAccumulator |-> 0,
     isLoading |-> TRUE, error |-> "none", cached |-> {},
     inflight |-> {}, issued |-> 0, setBy |-> <<>>, picks |-> 0,
     picked |-> FALSE]

\* useMoonPhase({ date: formatDateForAPI(selectedDate) }) has its answer, h
\* being what getHandler did: with a record the page renders MoonCanvas anew,
\* with an error it renders the alert alone
moonDataArrived(u, h) ==
    IF h.did.status = 200
    THEN [u EXCEPT !.isLoading = FALSE, !.mounted = TRUE,
                   !.cached = @ \cup {DayOf(u.selectedDate)}]
    ELSE [u EXCEPT !.isLoading = FALSE,
                   !.error = IF h.thrown = "none" THEN h.did.message ELSE h.thrown]

\* dates picked: the limits of the picker and the first day of the engine's
\* window
PickerDates == {minDate, fiftyYearsAgo(currentTime), maxDate}

\* pointer positions, in px
PointerXs == {0, 50, 100}

(***************************************************************************)
(* The state machine: a caller invokes one engine operation at a time and  *)
(* takes its outcome; the clock moves between calls.                       *)
(***************************************************************************)
Idle == [op |-> "idle"]

\* the visualization page is not open
NoUi == [open |-> FALSE]

Init ==
    /\ boot \in BootTimes
    /\ now = boot
    /\ build \in {"formula", "suncalc"}
    /\ hourCycle \in (IF build = "formula" THEN {"h23"} ELSE {"h23", "h24"})
    /\ res = Idle
    /\ ui = NoUi

\* the caller of getMoonPhaseData(date) is holding its outcome
Holding == res.op = "getMoonPhaseData" /\ ~res.location

\* time passes between calls
Tick ==
    /\ res = Idle \/ Holding
    /\ now < boot + MaxTicks * TickMinutes
    /\ now' = now + TickMinutes
    /\ UNCHANGED <<boot, build, hourCycle, res, ui>>

CallCalculateMoonPhase ==
    /\ res = Idle
    /\ \E date \in PhaseDates, lib \in LibDraws :
          res' = [op |-> "calculateMoonPhase", date |-> date, lib |-> lib,
                  out |-> calculateMoonPhase(date, lib)]
    /\ UNCHANGED <<now, boot, build, hourCycle, ui>>

\* new Date(date.getTime() + lunarCycle days): a Date holds a whole number of
\* its units, so the fraction of a unit in the cycle is dropped
cycleLater(date) == date + lunarCycle \div TauPerMinute

\* the formula build's calculateMoonPhase is asked for the instant one lunar
\* cycle after the instant it has just answered (the SunCalc build's phase is
\* the library's, which the engine does not compute)
CallCalculateMoonPhaseCycleLater ==
    /\ build = "formula"
    /\ res.op = "calculateMoonPhase"
    /\ res' = [op |-> "calculateMoonPhaseCycleLater", date |-> cycleLater(res.date),
               firstDate |-> res.date, first |-> res.out, lib |-> NoLib,
               out |-> calculateMoonPhase(cycleLater(res.date), NoLib)]
    /\ UNCHANGED <<now, boot, build, hourCycle, ui>>

CallGetMoonPhaseData ==
    /\ res = Idle
    /\ \E date \in DataDates, location \in BOOLEAN, lib \in LibDataDraws :
          \E times \in DataTimesDraws(location) :
             res' = [op |-> "getMoonPhaseData", date |-> date, location |-> location,
                     lib |-> lib, clock |-> now,
                     passed |-> <<date>>, held |-> <<dateAfter(date, lib)>>,
                     out |-> getMoonPhaseData(date, location, lib, times)]
    /\ UNCHANGED <<now, boot, build, hourCycle, ui>>

\* the same instant is asked for again, without a coordinate; the library,
\* a function of the instant, answers as it did
CallGetMoonPhaseDataAgain ==
    /\ Holding
    /\ res' = [op |-> "getMoonPhaseDataAgain", date |-> res.date, lib |-> res.lib,
               firstClock |-> res.clock, first |-> res.out, clock |-> now,
               passed |-> <<res.date>>, held |-> <<dateAfter(res.date, res.lib)>>,
               out |-> getMoonPhaseData(res.date, FALSE, res.lib, NoTimes)]
    /\ UNCHANGED <<now, boot, build, hourCycle, ui>>

CallGetMoonPhaseRange ==
    /\ res = Idle
    /\ \E in \in RangeInputs, lib \in LibRangeDraws :
          res' \in {[op |-> "getMoonPhaseRange", startDate |-> in.start, endDate |-> in.end,
                     clock |-> now, passed |-> <<in.start, in.end>>,
                     held |-> <<startDateAfter(in.start, out), in.end>>, out |-> out] :
                       out \in {getMoonPhaseRange(in.start, in.end, lib)}}
    /\ UNCHANGED <<now, boot, build, hourCycle, ui>>

CallGetNextPhaseInfo ==
    /\ res = Idle
    /\ \E currentAge \in NextPhaseAges, currentDate \in CalendarDates \cup {now} :
          res' = [op |-> "getNextPhaseInfo", currentAge |-> currentAge,
                  currentDate |-> currentDate,
                  passed |-> <<currentDate>>,
                  held |-> <<currentDateAfter(currentAge, currentDate)>>,
                  out |-> getNextPhaseInfo(currentAge, currentDate)]
    /\ UNCHANGED <<now, boot, build, hourCycle, ui>>

CallCalculateMoonTimes ==
    /\ res = Idle
    /\ \E in \in MoonTimesInputs :
          res' = [op |-> "calculateMoonTimes", phase |-> in.phase,
                  location |-> in.location, times |-> in.times,
                  out |-> calculateMoonTimes(in.phase, in.location, in.times)]
    /\ UNCHANGED <<now, boot, build, hourCycle, ui>>

CallCalculateDateFromRotation ==
    /\ res = Idle
    /\ \E baseDate \in CalendarDates, angleDegrees \in Angles, speed \in Speeds :
          res' \in {[op |-> "calculateDateFromRotation", baseDate |-> baseDate,
                     angleDegrees |-> angleDegrees, speed |-> speed, clock |-> now,
                     passed |-> <<baseDate>>, held |-> <<baseDateAfter(baseDate, out)>>,
                     out |-> out] :
                       out \in {calculateDateFromRotation(baseDate, angleDegrees, speed)}}
    /\ UNCHANGED <<now, boot, build, hourCycle, ui>>

CallGenerateDateArc ==
    /\ res = Idle
    /\ \E centerDate \in CalendarDates, intervalDays \in Intervals, totalDates \in TotalDates :
          res' = [op |-> "generateDateArc", centerDate |-> centerDate,
                  intervalDays |-> intervalDays, totalDates |-> totalDates, clock |-> now,
                  passed |-> <<centerDate>>,
                  held |-> <<IF intervalDays \in validIntervals
                             THEN centerDateAfter(centerDate, 0 - totalDates \div 2,
                                                  totalDates \div 2, intervalDays)
                             ELSE centerDate>>,
                  out |-> generateDateArc(centerDate, intervalDays, totalDates)]
    /\ UNCHANGED <<now, boot, build, hourCycle, ui>>

\* GET /moon-phase
ServeGet ==
    /\ res = Idle
    /\ \E date \in DateStrings \cup {Absent}, lib \in LibRangeDraws :
          res' = [op |-> "getHandler", query |-> [date |-> date], clock |-> now,
                  out |-> getHandler([date |-> date], lib)]
    /\ UNCHANGED <<now, boot, build, hourCycle, ui>>

\* GET /moon-phase/range
ServeGetRange ==
    /\ res = Idle
    /\ \E query \in RangeQueries, lib \in LibRangeDraws :
          res' = [op |-> "getRangeHandler", query |-> query, clock |-> now,
                  out |-> getRangeHandler(query, lib)]
    /\ UNCHANGED <<now, boot, build, hourCycle, ui>>

\* POST /moon-phase/rotation
ServePostRotation ==
    /\ res = Idle
    /\ \E body \in RotationBodies, lib \in LibRangeDraws :
          res' = [op |-> "postRotationHandler", body |-> body, clock |-> now,
                  out |-> postRotationHandler(body, lib)]
    /\ UNCHANGED <<now, boot, build, hourCycle, ui>>

\* POST /moon-phase/date-arc
ServePostDateArc ==
    /\ res = Idle
    /\ \E body \in DateArcBodies :
          res' = [op |-> "postDateArcHandler", body |-> body, clock |-> now,
                  out |-> postDateArcHandler(body)]
    /\ UNCHANGED <<now, boot, build, hourCycle, ui>>

\* the caller takes the outcome; nothing of the call remains
Return ==
    /\ res # Idle
    /\ res' = Idle
    /\ UNCHANGED <<now, boot, build, hourCycle, ui>>

Next ==
    \/ Tick
    \/ CallCalculateMoonPhase
    \/ CallCalculateMoonPhaseCycleLater
    \/ CallGetMoonPhaseData
    \/ CallGetMoonPhaseDataAgain
    \/ CallGetMoonPhaseRange
    \/ CallGetNextPhaseInfo
    \/ CallCalculateMoonTimes
    \/ CallCalculateDateFromRotation
    \/ CallGenerateDateArc
    \/ ServeGet
    \/ ServeGetRange
    \/ ServePostRotation
    \/ ServePostDateArc
    \/ Return

Spec == Init /\ [][Next]_vars

(***************************************************************************)
(* The state machine of the visualization page: the user picks dates,      *)
(* drags the moon, changes the speed and resets; the answers of the        *)
(* server arrive one at a time, those of the rotation requests in any      *)
(* order.  The server answers with the formula build, browser and server  *)
(* read the same clock.                                                    *)
(***************************************************************************)
UiInit ==
    /\ boot \in BootTimes
    /\ now = boot
    /\ build = "formula"
    /\ hourCycle = "h23"
    /\ res = Idle
    /\ ui = openPage

\* the answer to the moon-phase query of the selected date arrives
MoonDataArrives ==
    /\ ui.isLoading
    /\ \E lib \in LibRangeDraws :
          ui' \in {moonDataArrived(ui, h) :
                      h \in {getHandler([date |-> formatDateForAPI(ui.selectedDate)], lib)}}
    /\ UNCHANGED <<now, boot, build, hourCycle, res>>

\* a date is chosen in the date picker or in the lunar calendar; the pointer
\* is not holding the moon, and at most MaxPicks dates are chosen, the button
\* Hoje counted
PickDate ==
    /\ ui.error = "none" /\ ~ui.isDragging
    /\ ui.picks < MaxPicks
    /\ \E date \in PickerDates :
          ui' = [setSelectedDate(ui, date, TRUE) EXCEPT !.picks = @ + 1]
    /\ UNCHANGED <<now, boot, build, hourCycle, res>>

\* the button Hoje
ResetToToday ==
    /\ ui.error = "none" /\ ~ui.isDragging
    /\ ui.picks < MaxPicks
    /\ ui' = [resetToToday(ui) EXCEPT !.picks = @ + 1]
    /\ UNCHANGED <<now, boot, build, hourCycle, res>>

\* the radio group of RotationControls
SetRotationSpeed ==
    /\ ui.error = "none" /\ ~ui.isDragging
    /\ \E speed \in Speeds :
          ui' = [ui EXCEPT !.rotationSpeed = speed]
    /\ UNCHANGED <<now, boot, build, hourCycle, res>>

\* onMouseDown, onTouchStart; positions are counted from where the drag starts
DragStart ==
    /\ ui.mounted
    /\ ui' = handleStart(ui, 0)
    /\ UNCHANGED <<now, boot, build, hourCycle, res>>

\* onMouseMove, onTouchMove; at most MaxRequests rotation requests are sent
DragMove ==
    /\ ui.mounted
    /\ \E clientX \in PointerXs :
          ui' \in {v \in {handleMove(ui, clientX)} : v.issued <= MaxRequests}
    /\ UNCHANGED <<now, boot, build, hourCycle, res>>

\* onMouseUp, onMouseLeave, onTouchEnd
DragEnd ==
    /\ ui.mounted
    /\ ui' = handleEnd(ui)
    /\ UNCHANGED <<now, boot, build, hourCycle, res>>

\* the answer to one of the rotation requests in flight arrives
RotationAnswered ==
    /\ \E request \in ui.inflight, lib \in LibRangeDraws :
          ui' \in {rotationAnswered(ui, request, h) :
                      h \in {postRotationHandler(request.body, lib)}}
    /\ UNCHANGED <<now, boot, build, hourCycle, res>>

UiNext ==
    \/ MoonDataArrives
    \/ PickDate
    \/ ResetToToday
    \/ SetRotationSpeed
    \/ DragStart
    \/ DragMove
    \/ DragEnd
    \/ RotationAnswered

UiSpec == UiInit /\ [][UiNext]_vars

C2_PhaseInUnitInterval ==
    res.op = "calculateMoonPhase" =>
        /\ 0 <= res.out.phase.n
        /\ res.out.phase.n < res.out.phase.d
        /\ (build = "formula" /\ res.date = knownNewMoon) =>
              (res.out.phase.n = 0 /\ res.out.phaseName = "New Moon")

\* the formula has been evaluated one minute before the reference new moon
C2_Witness ==
    /\ res.op = "calculateMoonPhase"
    /\ build = "formula"
    /\ res.date = knownNewMoon - 1
    /\ res.out.phase.n > 0

C4_AgeIsPhaseTimesCycle ==
    res.op = "calculateMoonPhase" =>
        LET age == res.out.age
            p == res.out.phase
            product == IF p.d = lunarCycle THEN Rat(p.n, 1) ELSE Rat(p.n * lunarCycle, p.d)
        IN  /\ RatSub(age, product).n = 0
            /\ age.n >= 0
            /\ RatSub(age, Rat(lunarCycle, 1)).n < 0

\* an age has been computed for an instant well before the reference new moon
C4_Witness ==
    /\ res.op = "calculateMoonPhase"
    /\ build = "formula"
    /\ res.date < knownNewMoon - 1
    /\ res.out.age.n > 0

\* C5: getMoonPhaseData signals dateOutOfRange exactly when the calendar date
\* supplied lies outside the window from 50 calendar years before to 50
\* calendar years after the clock read by that call; for every date inside
\* the window it returns a record of that date.  (The day 50 years from a
\* 29 February, in a year that has none, is 1 March.)
C5_DateOutOfRangeExactly ==
    res.op = "getMoonPhaseData" =>
        LET today == Civil(DayOf(res.clock))
            day == Civil(DayOf(res.date))
            leap(y) == y % 4 = 0 /\ (y % 100 # 0 \/ y % 400 = 0)
            sameDayOf(y) == IF today.m = 1 /\ today.d = 29 /\ ~leap(y)
                            THEN [y |-> y, m |-> 2, d |-> 1]
                            ELSE [today EXCEPT !.y = y]
            before(a, b) == \/ a.y < b.y
                            \/ a.y = b.y /\ a.m < b.m
                            \/ a.y = b.y /\ a.m = b.m /\ a.d < b.d
            outside == \/ before(day, sameDayOf(today.y - 50))
                       \/ before(sameDayOf(today.y + 50), day)
        IN  /\ res.out.err = "dateOutOfRange" <=> outside
            /\ ~outside => (res.out.err = "none" /\ res.out.data.date = isoDate(res.date))

\* after the clock has moved to another day, the last day of the window as it
\* then is has been asked for and answered
C5_Witness ==
    /\ res.op = "getMoonPhaseData"
    /\ DayOf(res.clock) # DayOf(boot)
    /\ res.date = fiftyYearsAhead(res.clock)
    /\ res.out.err = "none"

\* C6: getMoonPhaseRange fails with invalidDateRange whenever
\* startDate > endDate, fails with dateRangeTooLarge whenever
\* endDate - startDate exceeds 365 days, and does not reject a span of exactly
\* 365 days as too large.
C6_RangeValidation ==
    res.op = "getMoonPhaseRange" =>
        LET span == res.endDate - res.startDate
        IN  /\ res.startDate > res.endDate => res.out.err = "invalidDateRange"
            /\ span > 365 * MinutesPerDay => res.out.err = "dateRangeTooLarge"
            /\ span = 365 * MinutesPerDay => res.out.err # "dateRangeTooLarge"

\* a span of exactly 365 days has been accepted
C6_Witness ==
    /\ res.op = "getMoonPhaseRange"
    /\ res.endDate - res.startDate = 365 * MinutesPerDay
    /\ res.out.err = "none"

\* C7: a range query never partially computes: in every getMoonPhaseRange
\* call that fails, the failure is raised before any per-day observation has
\* been computed.
C7_NoPartialRange ==
    (res.op = "getMoonPhaseRange" /\ res.out.err # "none") => res.out.computed = 0

\* C8: for every valid range (startDate <= endDate, span at most 365 days,
\* all days inside the window) getMoonPhaseRange returns exactly one record
\* per calendar day from startDate through endDate, in ascending order, each
\* one day after the one before: at most 366 records.
C8_OneRecordPerDay ==
    (/\ res.op = "getMoonPhaseRange"
     /\ res.startDate <= res.endDate
     /\ res.endDate - res.startDate <= 365 * MinutesPerDay
     /\ fiftyYearsAgo(res.clock) <= res.startDate
     /\ res.endDate <= fiftyYearsAhead(res.clock)) =>
        /\ res.out.err = "none"
        /\ Len(res.out.data) = DayOf(res.endDate) - DayOf(res.startDate) + 1
        /\ Len(res.out.data) <= 366
        /\ \A i \in 1..Len(res.out.data) :
              res.out.data[i].date = isoDate(res.startDate + (i - 1) * MinutesPerDay)

\* a range of 366 records has been returned
C8_Witness ==
    /\ res.op = "getMoonPhaseRange"
    /\ res.out.err = "none"
    /\ Len(res.out.data) = 366

\* C9: the 50-year guard is applied at every entry point that accepts a date:
\* calculateDateFromRotation called with a base date outside the window, and
\* generateDateArc called with a center date outside the window, signal
\* dateOutOfRange.
C9_GuardAtEveryEntry ==
    /\ (res.op = "calculateDateFromRotation"
        /\ (res.baseDate < fiftyYearsAgo(res.clock) \/ res.baseDate > fiftyYearsAhead(res.clock)))
          => res.out.err = "dateOutOfRange"
    /\ (res.op = "generateDateArc"
        /\ (res.centerDate < fiftyYearsAgo(res.clock) \/ res.centerDate > fiftyYearsAhead(res.clock)))
          => res.out.err = "dateOutOfRange"

\* C10: calculateDateFromRotation returns the base date moved by
\* round((angle / 30) * daysPerUnit) whole days, daysPerUnit being 1 for slow
\* and 7 for fast: n is that rounding when n - 1/2 <= angle * daysPerUnit / 30
\* < n + 1/2.  Angle 360 gives 12 days (slow) and 84 days (fast); angle 0
\* gives the base date.
C10_RotationOffset ==
    res.op = "calculateDateFromRotation" =>
        LET shift == res.out.date - res.baseDate
            n == shift \div MinutesPerDay
            perUnit == IF res.speed = "slow" THEN 1 ELSE 7
            twice == 2 * res.angleDegrees * perUnit
        IN  /\ res.out.err = "none"
            /\ shift = n * MinutesPerDay
            /\ 30 * (2 * n - 1) <= twice
            /\ twice < 30 * (2 * n + 1)
            /\ res.angleDegrees = 360 => n = (IF res.speed = "slow" THEN 12 ELSE 84)
            /\ res.angleDegrees = 0 => res.out.date = res.baseDate

\* a full turn in fast mode has moved the date by 84 days
C10_Witness ==
    /\ res.op = "calculateDateFromRotation"
    /\ res.angleDegrees = 360
    /\ res.speed = "fast"
    /\ res.out.date = res.baseDate + 84 * MinutesPerDay

\* C11: generateDateArc signals invalidInterval for every intervalDays outside
\* {1, 3, 7, 30}, whatever the center date and totalDates, and produces no
\* labels then; for intervalDays in {1, 3, 7, 30} it never signals
\* invalidInterval.
C11_InvalidInterval ==
    res.op = "generateDateArc" =>
        /\ res.out.err = "invalidInterval" <=> res.intervalDays \notin {1, 3, 7, 30}
        /\ res.out.err = "invalidInterval" => res.out.dates = <<>>

\* an interval of 2 days has been refused
C11_Witness ==
    /\ res.op = "generateDateArc"
    /\ res.intervalDays = 2
    /\ res.out.err = "invalidInterval"

C13_NextMajorPhase ==
    res.op = "getNextPhaseInfo" =>
        LET exceeds(q) == RatSub(Rat(q * lunarCycle, 4), res.currentAge).n > 0
            name == res.out.name
        IN  /\ name \in {"First Quarter", "Full Moon", "Last Quarter", "New Moon"}
            /\ name = "First Quarter" <=> (exceeds(1) \/ ~exceeds(4))
            /\ name = "Full Moon" <=> (~exceeds(1) /\ exceeds(2))
            /\ name = "Last Quarter" <=> (~exceeds(2) /\ exceeds(3))
            /\ name = "New Moon" <=> (~exceeds(3) /\ exceeds(4))

\* an age of exactly half the period has been answered with Last Quarter
C13_Witness ==
    /\ res.op = "getNextPhaseInfo"
    /\ RatSub(Rat(lunarCycle, 2), res.currentAge).n = 0
    /\ res.out.name = "Last Quarter"

\* C14: the forecast date of getNextPhaseInfo is the current date advanced by
\* exactly ceil(daysToNext) whole days, daysToNext being the age of the phase
\* named minus the current age, plus one period if that is negative: the
\* number n of days advanced satisfies n - 1 < daysToNext <= n.
C14_ForecastDate ==
    res.op = "getNextPhaseInfo" =>
        LET quarter == CASE res.out.name = "First Quarter" -> 1
                         [] res.out.name = "Full Moon" -> 2
                         [] res.out.name = "Last Quarter" -> 3
                         [] OTHER -> 4
            diff == RatSub(Rat(quarter * lunarCycle, 4), res.currentAge)
            tau  == IF diff.n < 0 THEN diff.n + lunarCycle * diff.d ELSE diff.n
            oneDay == TauPerDay * diff.d
            n == MakeDay(res.out.date.y, res.out.date.m - 1, res.out.date.d)
                    - DayOf(res.currentDate)
        IN  /\ (n - 1) * oneDay < tau
            /\ tau <= n * oneDay
            /\ res.out.date = isoDate(res.currentDate + n * MinutesPerDay)

\* a forecast has fallen in the month after the current date's
C14_Witness ==
    /\ res.op = "getNextPhaseInfo"
    /\ res.out.date.m # isoDate(res.currentDate).m
    /\ res.out.date.d < 8

\* C15: the duration reported by getNextPhaseInfo is floor(daysToNext) whole
\* days and round((daysToNext mod 1) * 24) hours: with d the days and h the
\* hours, d <= daysToNext < d + 1 and h - 1/2 <= (daysToNext - d) * 24 < h + 1/2.
C15_Duration ==
    res.op = "getNextPhaseInfo" =>
        LET quarter == CASE res.out.name = "First Quarter" -> 1
                         [] res.out.name = "Full Moon" -> 2
                         [] res.out.name = "Last Quarter" -> 3
                         [] OTHER -> 4
            diff == RatSub(Rat(quarter * lunarCycle, 4), res.currentAge)
            tau  == IF diff.n < 0 THEN diff.n + lunarCycle * diff.d ELSE diff.n
            oneDay == TauPerDay * diff.d
            d == res.out.duration.days
            h == res.out.duration.hours
            rest == tau - d * oneDay
        IN  /\ 0 <= rest
            /\ rest < oneDay
            /\ (2 * h - 1) * oneDay <= 48 * rest
            /\ 48 * rest < (2 * h + 1) * oneDay

\* a duration whose hours round up to 24 has been reported
C15_Witness ==
    /\ res.op = "getNextPhaseInfo"
    /\ res.out.duration.hours = 24

\* C16: in the formula build, for every phase fraction p in [0,1) the rise
\* time is (6 + 24 * p) hours wrapped modulo 24 and the set time is the rise
\* time plus 12 hours wrapped modulo 24, both written HH:MM (whole minutes,
\* cut down) with hours in 00..23 and minutes in 00..59; p = 0 gives rise
\* 06:00 and set 18:00.  getMoonPhaseData reports the times of the phase of
\* its date.
C16_FormulaMoonTimes ==
    LET minuteOfDay(t) == 60 * t.hh + t.mm
        wellFormed(t) == t.hh \in 0..23 /\ t.mm \in 0..59
        riseMinute(p) == ((60 * jsRem(6 * p.d + 24 * p.n, 24 * p.d)) \div p.d)
        holds(p, rise, set) ==
            /\ wellFormed(rise) /\ wellFormed(set)
            /\ minuteOfDay(rise) = riseMinute(p)
            /\ minuteOfDay(set) = (riseMinute(p) + 12 * 60) % (24 * 60)
            /\ p.n = 0 => (rise = HHMM(6, 0) /\ set = HHMM(18, 0))
    IN  /\ (build = "formula" /\ res.op = "calculateMoonTimes") =>
              holds(res.phase, res.out.rise, res.out.set)
        /\ (build = "formula" /\ res.op = "getMoonPhaseData" /\ res.out.err = "none") =>
              holds(formulaPhase(res.date), res.out.data.moonRise, res.out.data.moonSet)

\* the times of a phase of three quarters have been given: rise at 00:00
C16_Witness ==
    /\ build = "formula"
    /\ res.op = "calculateMoonTimes"
    /\ res.phase = PerMille(750)
    /\ res.out.rise = HHMM(0, 0)
    /\ res.out.set = HHMM(12, 0)

\* C17: in the SunCalc build a missing or invalid (NaN) rise or set time is
\* reported as '--:--' and never as an error, without a coordinate both rise
\* and set are '--:--', and every rise or set value returned is either a
\* valid time of day (hours 00..23, minutes 00..59) or '--:--'.
C17_TimesOrSentinel ==
    (build = "suncalc" /\ res.op = "calculateMoonTimes") =>
        LET timeOfDay(t) == t.hh \in 0..23 /\ t.mm \in 0..59
        IN  /\ ~res.location => (res.out.rise = Unavailable /\ res.out.set = Unavailable)
            /\ (res.location /\ res.times.rise.kind # "valid") => res.out.rise = Unavailable
            /\ (res.location /\ res.times.set.kind # "valid") => res.out.set = Unavailable
            /\ res.out.rise = Unavailable \/ timeOfDay(res.out.rise)
            /\ res.out.set = Unavailable \/ timeOfDay(res.out.set)

\* C18 (as amended): getMoonPhaseData called twice with the same instant and
\* no coordinate returns identical records whenever both calls return one,
\* and identical outcomes whenever the clock reads the same calendar day at
\* both calls; the outcomes can differ only in that one call signals
\* dateOutOfRange and the other does not.
C18_SameRecordWhenAnswered ==
    res.op = "getMoonPhaseDataAgain" =>
        /\ (res.first.err = "none" /\ res.out.err = "none") => res.out = res.first
        /\ DayOf(res.firstClock) = DayOf(res.clock) => res.out = res.first
        /\ res.out # res.first => "dateOutOfRange" \in {res.first.err, res.out.err}

\* the same instant has been answered twice, on different days
C18_Witness ==
    /\ res.op = "getMoonPhaseDataAgain"
    /\ DayOf(res.firstClock) # DayOf(res.clock)
    /\ res.first.err = "none"
    /\ res.out = res.first

\* C18 as stated: the two calls return identical results whenever they are made
C18_Original ==
    res.op = "getMoonPhaseDataAgain" => res.out = res.first

C20_CycleClosesOnCircle ==
    (res.op = "calculateMoonPhaseCycleLater") =>
        LET diff  == RatSub(res.out.phase, res.first.phase)
            apart == IF diff.n < 0 THEN Rat(0 - diff.n, diff.d) ELSE diff
            round == Rat(apart.d - apart.n, apart.d)
        IN  RatLt(apart, PerMille(1)) \/ RatLt(round, PerMille(1))

\* the cycle after the reference new moon: the phase 0 is followed, a cycle
\* later, by a phase just under 1
C20_Witness ==
    /\ res.op = "calculateMoonPhaseCycleLater"
    /\ res.first.phase.n = 0
    /\ res.out.phase.n = lunarCycle - 1

\* C20 as stated: the two phase fractions differ by less than 0.001
C20_Original ==
    res.op = "calculateMoonPhaseCycleLater" =>
        LET diff  == RatSub(res.out.phase, res.first.phase)
            apart == IF diff.n < 0 THEN Rat(0 - diff.n, diff.d) ELSE diff
        IN  RatLt(apart, PerMille(1))

\* C21: whatever condition the engine signals while a request is served
\* (dateOutOfRange, invalidDateRange, dateRangeTooLarge, invalidInterval), the
\* handler answers 400 VALIDATION_ERROR with the same code and hands nothing
\* to next(); any other error is handed to next() and no response is sent.
C21_EngineConditionsBecome400 ==
    (res.op \in {"getHandler", "getRangeHandler", "postRotationHandler", "postDateArcHandler"}
       /\ res.out.thrown # "none") =>
        IF res.out.thrown \in {"dateOutOfRange", "invalidDateRange",
                               "dateRangeTooLarge", "invalidInterval"}
        THEN res.out.did = [status |-> 400, message |-> res.out.thrown,
                            type |-> "VALIDATION_ERROR", next |-> "none"]
        ELSE res.out.did = [status |-> 0, message |-> "none", type |-> "none",
                            next |-> res.out.thrown]

\* the range handler has answered a range over the cap
C21_Witness ==
    /\ res.op = "getRangeHandler"
    /\ res.out.thrown = "dateRangeTooLarge"
    /\ res.out.did.status = 400

\* C22: for every valid interval and every totalDates >= 1, generateDateArc
\* returns exactly totalDates labels.
C22_ExactlyTotalDates ==
    (res.op = "generateDateArc" /\ res.intervalDays \in {1, 3, 7, 30} /\ res.totalDates >= 1) =>
        Len(res.out.dates) = res.totalDates

\* C23: for every current age in [0, lunarCycle) getNextPhaseInfo finds a
\* major phase after it (the wrap-around is not taken), the difference of the
\* ages is positive without the adjustment and at most a quarter of the cycle,
\* and the forecast date is between 1 and 8 whole days after the current date.
C23_NextWithinAQuarter ==
    res.op = "getNextPhaseInfo" =>
        LET diff == RatSub(findNextPhase(res.currentAge).age, res.currentAge)
            n == MakeDay(res.out.date.y, res.out.date.m - 1, res.out.date.d)
                    - DayOf(res.currentDate)
        IN  /\ res.currentAge.n >= 0 /\ res.currentAge.n < lunarCycle * res.currentAge.d
            /\ agesAfter(res.currentAge) # {}
            /\ diff.n > 0
            /\ RatSub(Rat(lunarCycle, 4), diff).n >= 0
            /\ n \in 1..8

\* at age 0 the next phase is a full quarter of the cycle away, and the
\* forecast falls 8 days after the current date
C23_Witness ==
    /\ res.op = "getNextPhaseInfo"
    /\ res.currentAge.n = 0
    /\ res.out.name = "First Quarter"
    /\ res.out.date = isoDate(res.currentDate + 8 * MinutesPerDay)

\* C24: in every duration produced by getNextPhaseInfo the hours are between
\* 0 and 23 inclusive.
C24_HoursBelow24 ==
    res.op = "getNextPhaseInfo" => res.out.duration.hours \in 0..23

\* C25: in every record returned by getMoonPhaseData the phaseValue is in
\* [0, 1) and never 1, the illumination percentage is in [0, 100], and the age
\* is below lunarCycle (29.53058867 days).
C25_RecordRanges ==
    (res.op = "getMoonPhaseData" /\ res.out.err = "none") =>
        LET data == res.out.data
        IN  /\ data.phaseValue.n >= 0 /\ data.phaseValue.n < data.phaseValue.d
            /\ data.illumination.n >= 0 /\ data.illumination.n <= 100 * data.illumination.d
            /\ data.age.n >= 0 /\ data.age.n * TauPerDay < lunarCycle * data.age.d

\* C26: in every record returned by getMoonPhaseData the phaseName is the name
\* the phase-name partition gives to the phaseValue of the same record.
C26_NameOfPublishedValue ==
    (res.op = "getMoonPhaseData" /\ res.out.err = "none") =>
        res.out.data.phaseName = phaseNameOf(res.out.data.phaseValue)

\* C27: for every angle a and speed the day offset calculateDateFromRotation
\* computes for -a is the negation of the offset for a, and navigating by a
\* and then by -a returns to the base date.
C27_RotationAntisymmetric ==
    res.op = "calculateDateFromRotation" =>
        /\ jsRound(dayOffset(0 - res.angleDegrees, res.speed))
              = 0 - jsRound(dayOffset(res.angleDegrees, res.speed))
        /\ calculateDateFromRotation(res.out.date, 0 - res.angleDegrees, res.speed).date
              = res.baseDate

\* C28: every date the date picker and the lunar calendar let the user choose
\* (from January 1 of the year 50 years back to December 31 of the year 50
\* years ahead) is accepted by the range guard of getMoonPhaseData, so the
\* query of a chosen date never ends in dateOutOfRange; and isDateInRange
\* accepts exactly the dates that guard accepts.
C28_SelectableDatesAccepted ==
    ui.open =>
        /\ \A date \in PickerDates \cup CalendarDates :
              isDateInRange(date) <=> ~outOfRange(date)
        /\ ui.picked => ui.error # "dateOutOfRange"

\* C29: the rotation requests whose answers set selectedDate do so in the
\* order they were sent, so an earlier request's late answer never overwrites
\* a later one's date; and a date set by a rotation update is within the
\* window of 50 years on either side of today.
C29_LaterRequestWins ==
    ui.open =>
        /\ \A i \in DOMAIN ui.setBy, j \in DOMAIN ui.setBy :
              i < j => ui.setBy[i] < ui.setBy[j]
        /\ ~ui.picked => isDateInRange(ui.selectedDate)

\* C30: isRotating is true exactly when MoonCanvas has a drag in progress; a
\* move with no drag in progress changes nothing and sends nothing; a move
\* sends a rotation request only when the accumulated distance has reached the
\* threshold of the speed, and then leaves the accumulator at 0; the angle
\* stored and the angles sent are in [0, 360).
C30_DragDiscipline ==
    ui.open =>
        /\ ui.isRotating <=> (ui.mounted /\ ui.isDragging)
        /\ ~ui.isDragging => \A clientX \in PointerXs : handleMove(ui, clientX) = ui
        /\ \A clientX \in PointerXs :
              LET after == handleMove(ui, clientX)
              IN  after.issued > ui.issued =>
                     /\ thresholdReached(ui.dragAccumulator + (clientX - ui.startX),
                                         ui.rotationSpeed)
                     /\ after.dragAccumulator = 0
        /\ ui.rotationAngle \in 0..359
        /\ \A request \in ui.inflight : request.body.angleDegrees \in 0..359
====
